---- MODULE Spec2Model ----
(***************************************************************************)
(* A model of srcinit (src/srcinit.py): the local cache of the template    *)
(* archive (sync, rollback, reset), the catalogue read (list) and the       *)
(* extraction of a template into a destination directory (generate).       *)
(*                                                                         *)
(* The cache directory is a flag (does SYNC_LOCAL_DIR exist) and a map     *)
(* from the two file names the program uses to a file: absent, or a        *)
(* sequence of the chunks written to it.  One action is one invocation of  *)
(* the command line; the file system is what survives between them.        *)
(***************************************************************************)
EXTENDS Integers, Sequences, FiniteSets, TLC

\* The longest remote body, counted in chunks of chunk_size bytes.
MaxChunks == 2

SYNC_LOCAL_FILE == "templates.zip"
SYNC_LOCAL_FILE_OLD == "templates.zip.old"

FileNames == {SYNC_LOCAL_FILE, SYNC_LOCAL_FILE_OLD}

(***************************************************************************)
(* Remote bodies.  A zip archive is named by an id; the id 0 names the     *)
(* body of a non-2xx response, which is no zip.  A chunk records the       *)
(* archive it belongs to, the number of chunks of the whole body and its   *)
(* own index, so a file's data is a prefix of exactly one body.            *)
(***************************************************************************)
ArchiveIds == {1, 2}

\* The names of the entries of the sample archives, in archive order, each a
\* sequence of characters.  Both hold the templates w and wx, the name of one
\* extending the name of the other, and w holds a file in a directory s.
\* Archive 1 has directory entries for the templates alone; archive 2 has one
\* for the nested directory too.
ArchiveEntries(a) ==
    IF a = 1
    THEN << <<"w", "x", "/">>, <<"w", "x", "/", "m">>, <<"w", "/">>,
            <<"w", "/", "a">>, <<"w", "/", "s", "/", "b">> >>
    ELSE << <<"w", "/">>, <<"w", "/", "a">>, <<"w", "/", "s", "/">>,
            <<"w", "/", "s", "/", "b">>, <<"w", "x", "/">>, <<"w", "x", "/", "m">> >>

\* The number of trailing chunks of the body that hold only the archive
\* comment, after the end-of-central-directory record: archive 2 carries a
\* comment longer than one chunk, archive 1 none.
CommentChunks(a) == IF a = 2 THEN 1 ELSE 0

Chunk(a, n, i) == [arch |-> a, of |-> n, idx |-> i]

Body(a, n) == [i \in 1..n |-> Chunk(a, n, i)]

ZipBodies == {Body(a, n) : a \in ArchiveIds, n \in 1..MaxChunks}

ErrorBodies == {Body(0, 1)}

\* The index of the chunk that completes the end-of-central-directory record.
EocdChunk(c) ==
    IF c.of > CommentChunks(c.arch) THEN c.of - CommentChunks(c.arch) ELSE c.of

\* The first k elements of a sequence.
Prefix(s, k) == SubSeq(s, 1, k)

(***************************************************************************)
(* The outcomes of the remote fetch of one sync.                           *)
(***************************************************************************)
Fetch(kind, body, cut) == [kind |-> kind, body |-> body, cut |-> cut]

Fetches ==
    {Fetch("ok", b, Len(b)) : b \in ZipBodies}
    \cup {Fetch("http_error", b, Len(b)) : b \in ErrorBodies}
    \cup {Fetch("conn_error", <<>>, 0), Fetch("interrupt_connect", <<>>, 0)}
    \cup UNION {{Fetch(k, b, n) : n \in 0..(Len(b) - 1)} :
                  k \in {"stream_error", "stream_interrupt"}, b \in ZipBodies}

\* The answers a user may type at a confirmation prompt.
Answers == {<<>>, <<"n">>, <<"N">>, <<"n", "o">>, <<"N", "O">>, <<"y">>, <<"Y">>}

(***************************************************************************)
(* The file system calls the program makes.                                *)
(***************************************************************************)
Absent == [exists |-> FALSE, data |-> <<>>]

File(data) == [exists |-> TRUE, data |-> data]

isfile(f, p) == f[p].exists

remove(f, p) == [f EXCEPT ![p] = Absent]

rename(f, a, b) == [f EXCEPT ![b] = f[a], ![a] = Absent]

write(f, p, data) == [f EXCEPT ![p] = File(data)]

NoFiles == [p \in FileNames |-> Absent]

\* str.lower on the characters the answers use.
lower_char(c) ==
    CASE c = "N" -> "n"
      [] c = "O" -> "o"
      [] c = "Y" -> "y"
      [] OTHER -> c

lower(s) == [i \in 1..Len(s) |-> lower_char(s[i])]

\* The test both prompts apply to the answer: anything but the empty answer
\* and a single n, in either case, goes ahead.
Confirms(answer) == ~(Len(answer) < 1 \/ lower(answer) = <<"n">>)

(***************************************************************************)
(* sync(rollback): lines 55-124.  Each part takes the directory flag d and *)
(* the file map f and returns the file system it leaves, the value         *)
(* returned ("True", "False", or "raise" when an exception leaves the      *)
(* function) and whether the user was prompted.                            *)
(***************************************************************************)
Outcome(d, f, ret, prompted) ==
    [dir |-> d, files |-> f, ret |-> ret, prompted |-> prompted]

\* The rollback branch, lines 58-81, after three faulty variants of it: one
\* that does not look for a backup first, one that copies the backup instead
\* of renaming it, one that keeps a current archive that is there.
rollback_no_guard(d, f, answer) ==
    IF ~Confirms(answer)
    THEN Outcome(d, f, "True", TRUE)
    ELSE Outcome(d, rename(f, SYNC_LOCAL_FILE_OLD, SYNC_LOCAL_FILE), "True", TRUE)

rollback_copies(d, f, answer) ==
    IF ~isfile(f, SYNC_LOCAL_FILE_OLD)
    THEN Outcome(d, f, "True", FALSE)
    ELSE IF ~Confirms(answer)
    THEN Outcome(d, f, "True", TRUE)
    ELSE Outcome(d, [f EXCEPT ![SYNC_LOCAL_FILE] = f[SYNC_LOCAL_FILE_OLD]], "True", TRUE)

rollback_keeps_current(d, f, answer) ==
    IF ~isfile(f, SYNC_LOCAL_FILE_OLD)
    THEN Outcome(d, f, "True", FALSE)
    ELSE IF ~Confirms(answer)
    THEN Outcome(d, f, "True", TRUE)
    ELSE IF isfile(f, SYNC_LOCAL_FILE)
    THEN Outcome(d, remove(f, SYNC_LOCAL_FILE_OLD), "True", TRUE)
    ELSE Outcome(d, rename(f, SYNC_LOCAL_FILE_OLD, SYNC_LOCAL_FILE), "True", TRUE)

rollback(d, f, answer) ==
    IF ~isfile(f, SYNC_LOCAL_FILE_OLD)
    THEN Outcome(d, f, "True", FALSE)
    ELSE IF ~Confirms(answer)
    THEN Outcome(d, f, "True", TRUE)
    ELSE LET g == IF isfile(f, SYNC_LOCAL_FILE) THEN remove(f, SYNC_LOCAL_FILE) ELSE f
         IN  Outcome(d, rename(g, SYNC_LOCAL_FILE_OLD, SYNC_LOCAL_FILE), "True", TRUE)

\* Lines 87-97: the current archive becomes the backup; without one the
\* directory is made.  Before it, two faulty variants: one that keeps a prior
\* backup instead of replacing it, one that drops the backup when there is no
\* current archive.
rotate_no_discard(d, f) ==
    IF isfile(f, SYNC_LOCAL_FILE)
    THEN IF isfile(f, SYNC_LOCAL_FILE_OLD)
         THEN [dir |-> d, files |-> remove(f, SYNC_LOCAL_FILE)]
         ELSE [dir |-> d, files |-> rename(f, SYNC_LOCAL_FILE, SYNC_LOCAL_FILE_OLD)]
    ELSE [dir |-> TRUE, files |-> f]

rotate_clears_backup(d, f) ==
    IF isfile(f, SYNC_LOCAL_FILE)
    THEN [dir |-> d, files |-> rename(f, SYNC_LOCAL_FILE, SYNC_LOCAL_FILE_OLD)]
    ELSE [dir |-> TRUE, files |-> remove(f, SYNC_LOCAL_FILE_OLD)]

rotate(d, f) ==
    IF isfile(f, SYNC_LOCAL_FILE)
    THEN LET g == IF isfile(f, SYNC_LOCAL_FILE_OLD)
                  THEN remove(f, SYNC_LOCAL_FILE_OLD)
                  ELSE f
         IN  [dir |-> d, files |-> rename(g, SYNC_LOCAL_FILE, SYNC_LOCAL_FILE_OLD)]
    ELSE IF ~d
    THEN [dir |-> TRUE, files |-> f]
    ELSE [dir |-> d, files |-> f]

\* The remote fetch, streamed into the current archive's path.
download(d, f, fetch) ==
    CASE fetch.kind = "conn_error" -> Outcome(d, f, "False", FALSE)
      [] fetch.kind = "interrupt_connect" -> Outcome(d, f, "True", FALSE)
      [] fetch.kind \in {"stream_error", "stream_interrupt"} ->
            Outcome(d, write(f, SYNC_LOCAL_FILE, Prefix(fetch.body, fetch.cut)),
                    "raise", FALSE)
      [] OTHER -> Outcome(d, write(f, SYNC_LOCAL_FILE, fetch.body), "True", FALSE)

sync(d, f, rollback_flag, answer, fetch) ==
    IF rollback_flag
    THEN rollback(d, f, answer)
    ELSE LET r == rotate(d, f) IN download(r.dir, r.files, fetch)

(***************************************************************************)
(* reset(): lines 127-147.  The bare return is the value "None".  Before   *)
(* it, two faulty variants: one that removes the current archive alone,    *)
(* one that also goes ahead when only a backup is there.                   *)
(***************************************************************************)
reset_removes_current_only(d, f, answer) ==
    IF ~isfile(f, SYNC_LOCAL_FILE)
    THEN Outcome(d, f, "None", FALSE)
    ELSE IF ~Confirms(answer)
    THEN Outcome(d, f, "False", TRUE)
    ELSE Outcome(d, remove(f, SYNC_LOCAL_FILE), "True", TRUE)

reset_no_guard(d, f, answer) ==
    IF ~isfile(f, SYNC_LOCAL_FILE) /\ ~isfile(f, SYNC_LOCAL_FILE_OLD)
    THEN Outcome(d, f, "None", FALSE)
    ELSE IF ~Confirms(answer)
    THEN Outcome(d, f, "False", TRUE)
    ELSE Outcome(FALSE, NoFiles, "True", TRUE)

reset(d, f, answer) ==
    IF ~isfile(f, SYNC_LOCAL_FILE)
    THEN Outcome(d, f, "None", FALSE)
    ELSE IF ~Confirms(answer)
    THEN Outcome(d, f, "False", TRUE)
    ELSE Outcome(FALSE, NoFiles, "True", TRUE)

(***************************************************************************)
(* list(): lines 150-175.                                                  *)
(***************************************************************************)
\* ZipFile(path, "r") followed by infolist(): the archive's entries when the
\* file holds the end-of-central-directory record of a zip, and no archive
\* (BadZipFile, or FileNotFoundError for a missing file) otherwise.  The
\* record is looked for from the end of the file, and the bytes of the
\* comment after it are not required to be there.
ZipFile(file) ==
    IF ~file.exists \/ file.data = <<>>
    THEN [ok |-> FALSE, entries |-> <<>>]
    ELSE LET c == file.data[1]
         IN  IF c.arch \notin ArchiveIds \/ Len(file.data) < EocdChunk(c)
             THEN [ok |-> FALSE, entries |-> <<>>]
             ELSE [ok |-> TRUE, entries |-> ArchiveEntries(c.arch)]

is_dir(filename) == Len(filename) > 0 /\ filename[Len(filename)] = "/"

removesuffix_slash(filename) ==
    IF is_dir(filename) THEN Prefix(filename, Len(filename) - 1) ELSE filename

\* The loop over the entries: the directory entries, without the trailing "/".
RECURSIVE template_list(_)
template_list(entries) ==
    IF entries = <<>>
    THEN <<>>
    ELSE LET rest == template_list(Tail(entries))
         IN  IF is_dir(Head(entries))
             THEN <<removesuffix_slash(Head(entries))>> \o rest
             ELSE rest

ListOutcome(d, f, ret, names, synced, opened) ==
    [dir |-> d, files |-> f, ret |-> ret, names |-> names,
     synced |-> synced, opened |-> opened]

\* ret is "list" when a list is returned and "raise" when an exception leaves
\* the function; opened is the file handed to ZipFile, when one was.  Before
\* it, a faulty variant that syncs whether or not a current archive is there.
list_always_syncs(d, f, fetch) ==
    LET s == sync(d, f, FALSE, <<>>, fetch)
        z == ZipFile(s.files[SYNC_LOCAL_FILE])
    IN  CASE s.ret = "raise" -> ListOutcome(s.dir, s.files, "raise", <<>>, TRUE, Absent)
          [] s.ret = "False" -> ListOutcome(s.dir, s.files, "list", <<>>, TRUE, Absent)
          [] OTHER ->
                IF z.ok
                THEN ListOutcome(s.dir, s.files, "list", template_list(z.entries),
                                 TRUE, s.files[SYNC_LOCAL_FILE])
                ELSE ListOutcome(s.dir, s.files, "raise", <<>>, TRUE,
                                 s.files[SYNC_LOCAL_FILE])

list(d, f, fetch) ==
    LET missing == ~isfile(f, SYNC_LOCAL_FILE)
        s == IF missing
             THEN sync(d, f, FALSE, <<>>, fetch)
             ELSE Outcome(d, f, "True", FALSE)
        z == ZipFile(s.files[SYNC_LOCAL_FILE])
    IN  CASE s.ret = "raise" -> ListOutcome(s.dir, s.files, "raise", <<>>, missing, Absent)
          [] s.ret = "False" -> ListOutcome(s.dir, s.files, "list", <<>>, missing, Absent)
          [] OTHER ->
                IF z.ok
                THEN ListOutcome(s.dir, s.files, "list", template_list(z.entries),
                                 missing, s.files[SYNC_LOCAL_FILE])
                ELSE ListOutcome(s.dir, s.files, "raise", <<>>, missing,
                                 s.files[SYNC_LOCAL_FILE])

(***************************************************************************)
(* generate(template, destination): lines 178-213.  The destination is a   *)
(* directory of the user's choice: whether it exists, the directories      *)
(* below it and the files below it, each a path relative to it and the     *)
(* data it holds.  The data of an archive entry is named by the archive    *)
(* and the entry; the data of a file that was there before by archive 0.   *)
(***************************************************************************)
Directory(exists, dirs, fs) == [exists |-> exists, dirs |-> dirs, files |-> fs]

DestFile(path, a, name) == [path |-> path, data |-> [arch |-> a, name |-> name]]

OldFile(path) == DestFile(path, 0, path)

\* The destinations a user may name: one that does not exist, and one that
\* holds the directory s and the files k and a.
Destinations ==
    { Directory(FALSE, {}, {}),
      Directory(TRUE, {<<"s">>}, {OldFile(<<"k">>), OldFile(<<"a">>)}) }

\* The template names a user may ask for; no archive holds z.
Templates == { <<"w">>, <<"w", "x">>, <<"w", "/", "s">>, <<"z">> }

startswith(s, p) == Len(s) >= Len(p) /\ SubSeq(s, 1, Len(p)) = p

\* entry[len(name):]
slice_from(entry, n) == SubSeq(entry, n + 1, Len(entry))

\* os.makedirs(destination, exist_ok=True)
makedirs(dest) == [dest EXCEPT !.exists = TRUE]

\* The directory part of a relative path: what precedes its last "/".
RECURSIVE dirname(_)
dirname(rel) ==
    IF rel = <<>>
    THEN <<>>
    ELSE IF rel[Len(rel)] = "/"
    THEN SubSeq(rel, 1, Len(rel) - 1)
    ELSE dirname(SubSeq(rel, 1, Len(rel) - 1))

\* open(output, "wb") succeeds when the path names no directory and its
\* directory exists; it raises IsADirectoryError or FileNotFoundError
\* otherwise.
can_open(dest, rel) ==
    /\ rel # <<>>
    /\ rel[Len(rel)] # "/"
    /\ rel \notin dest.dirs
    /\ dest.exists
    /\ dirname(rel) = <<>> \/ dirname(rel) \in dest.dirs

\* shutil.copyfileobj into the file opened with "wb".
copyfileobj(dest, rel, a, entry) ==
    [dest EXCEPT !.files = {x \in @ : x.path # rel} \cup {DestFile(rel, a, entry)}]

\* The loop over zip.namelist(), lines 196-209: it ends when the entries are
\* done (ok) or when an open raises.  Before it, a faulty variant that skips
\* the directory entries and takes the files of every template.
RECURSIVE extract_skips_directories(_, _, _, _)
extract_skips_directories(entries, a, name, dest) ==
    IF entries = <<>>
    THEN [dest |-> dest, ok |-> TRUE]
    ELSE LET entry == Head(entries)
             d == makedirs(dest)
             rel == slice_from(entry, Len(name))
         IN  IF is_dir(entry)
             THEN extract_skips_directories(Tail(entries), a, name, dest)
             ELSE IF can_open(d, rel)
             THEN extract_skips_directories(Tail(entries), a, name,
                                            copyfileobj(d, rel, a, entry))
             ELSE [dest |-> d, ok |-> FALSE]

RECURSIVE extract(_, _, _, _)
extract(entries, a, name, dest) ==
    IF entries = <<>>
    THEN [dest |-> dest, ok |-> TRUE]
    ELSE LET entry == Head(entries)
             d == makedirs(dest)
             rel == slice_from(entry, Len(name))
         IN  IF ~startswith(entry, name) \/ entry = name
             THEN extract(Tail(entries), a, name, dest)
             ELSE IF can_open(d, rel)
             THEN extract(Tail(entries), a, name, copyfileobj(d, rel, a, entry))
             ELSE [dest |-> d, ok |-> FALSE]

\* template in template_list
contains(names, x) == \E i \in 1..Len(names) : names[i] = x

\* listed says that list() returned.
GenerateOutcome(l, ret, dest) ==
    [dir |-> l.dir, files |-> l.files, ret |-> ret, names |-> l.names,
     synced |-> l.synced, opened |-> l.opened, listed |-> l.ret = "list",
     dest |-> dest]

\* ret is "True" or "False", or "raise" when an exception leaves the function.
\* Before it, a faulty variant that makes the destination before it looks the
\* template up.
generate_makedirs_first(d, f, fetch, template, dest) ==
    LET l == list(d, f, fetch)
        z == ZipFile(l.files[SYNC_LOCAL_FILE])
        x == extract(z.entries, l.files[SYNC_LOCAL_FILE].data[1].arch,
                     template \o <<"/">>, makedirs(dest))
    IN  IF l.ret = "raise"
        THEN GenerateOutcome(l, "raise", dest)
        ELSE IF ~contains(l.names, template)
        THEN GenerateOutcome(l, "False", makedirs(dest))
        ELSE GenerateOutcome(l, IF x.ok THEN "True" ELSE "raise", x.dest)

generate(d, f, fetch, template, dest) ==
    LET l == list(d, f, fetch)
        z == ZipFile(l.files[SYNC_LOCAL_FILE])
        x == extract(z.entries, l.files[SYNC_LOCAL_FILE].data[1].arch,
                     template \o <<"/">>, dest)
    IN  IF l.ret = "raise"
        THEN GenerateOutcome(l, "raise", dest)
        ELSE IF ~contains(l.names, template)
        THEN GenerateOutcome(l, "False", dest)
        ELSE GenerateOutcome(l, IF x.ok THEN "True" ELSE "raise", x.dest)

(***************************************************************************)
(* State.  dirExists and files are the cache directory.  The rest records  *)
(* the last invocation for the properties below: call is the operation,    *)
(* its inputs and what it returned, before is the cache directory as the   *)
(* invocation found it, prev is the invocation before it, backupSource is  *)
(* what the current archive held when the sync that made the present       *)
(* backup began, and gen is the template and the destination of a          *)
(* generate, as it found the destination and as it left it, and whether    *)
(* its list() returned.                                                    *)
(***************************************************************************)
VARIABLES dirExists, files, call, before, prev, backupSource, gen

vars == <<dirExists, files, call, before, prev, backupSource, gen>>

Generation(template, listed, destBefore, destAfter) ==
    [template |-> template, listed |-> listed, before |-> destBefore,
     after |-> destAfter]

NoGeneration ==
    Generation(<<>>, FALSE, Directory(FALSE, {}, {}), Directory(FALSE, {}, {}))

Call(op, answer, fetchKind, r, names, synced, opened) ==
    [op |-> op, answer |-> answer, fetch |-> fetchKind, ret |-> r.ret,
     prompted |-> r.prompted, names |-> names, synced |-> synced, opened |-> opened]

NoCall ==
    [op |-> "none", answer |-> <<>>, fetch |-> "none", ret |-> "None",
     prompted |-> FALSE, names |-> <<>>, synced |-> FALSE, opened |-> Absent]

\* What the next invocation remembers of this one: the operation, whether it
\* went ahead after a prompt, whether it is a sync in a run of syncs that
\* began with a complete download and went on with syncs that succeeded,
\* failed at connection or failed while streaming, and, for a sync whose
\* fetch succeeded or failed at connection, the current archive it found.
Summary(c) ==
    [op |-> c.op,
     acted |-> c.prompted /\ Confirms(c.answer),
     good |-> /\ c.op = "sync"
              /\ c.fetch \in {"ok", "conn_error", "stream_error", "stream_interrupt"}
              /\ (c.fetch = "ok" \/ prev.good),
     current |-> IF c.op = "sync" /\ c.fetch \in {"ok", "conn_error"}
                 THEN before.files[SYNC_LOCAL_FILE]
                 ELSE Absent]

NoSummary == [op |-> "none", acted |-> FALSE, good |-> FALSE, current |-> Absent]

Init ==
    /\ dirExists = FALSE
    /\ files = NoFiles
    /\ call = NoCall
    /\ before = [dir |-> FALSE, files |-> NoFiles]
    /\ prev = NoSummary
    /\ backupSource = Absent
    /\ gen = NoGeneration

\* The cache directory as an invocation finds it.
Snapshot == [dir |-> dirExists, files |-> files]

\* The source of the backup after an invocation that leaves the files g:
\* rotated says that it moved the current archive into the backup slot.
NextSource(g, rotated) ==
    IF rotated
    THEN files[SYNC_LOCAL_FILE]
    ELSE IF g[SYNC_LOCAL_FILE_OLD].exists THEN backupSource ELSE Absent

(***************************************************************************)
(* The subcommands main() dispatches on, lines 243-258.                    *)
(***************************************************************************)
CmdSync ==
    \E fetch \in Fetches :
        LET r == sync(dirExists, files, FALSE, <<>>, fetch)
        IN  /\ dirExists' = r.dir
            /\ files' = r.files
            /\ call' = Call("sync", <<>>, fetch.kind, r, <<>>, TRUE, Absent)
            /\ before' = Snapshot
            /\ prev' = Summary(call)
            /\ backupSource' = NextSource(r.files, isfile(files, SYNC_LOCAL_FILE))
            /\ gen' = NoGeneration

CmdRollback ==
    \E answer \in Answers :
        LET r == sync(dirExists, files, TRUE, answer, Fetch("none", <<>>, 0))
        IN  /\ dirExists' = r.dir
            /\ files' = r.files
            /\ call' = Call("rollback", answer, "none", r, <<>>, FALSE, Absent)
            /\ before' = Snapshot
            /\ prev' = Summary(call)
            /\ backupSource' = NextSource(r.files, FALSE)
            /\ gen' = NoGeneration

CmdReset ==
    \E answer \in Answers :
        LET r == reset(dirExists, files, answer)
        IN  /\ dirExists' = r.dir
            /\ files' = r.files
            /\ call' = Call("reset", answer, "none", r, <<>>, FALSE, Absent)
            /\ before' = Snapshot
            /\ prev' = Summary(call)
            /\ backupSource' = NextSource(r.files, FALSE)
            /\ gen' = NoGeneration

\* list() fetches only when it finds no current archive.
CmdList ==
    \E fetch \in IF isfile(files, SYNC_LOCAL_FILE)
                 THEN {Fetch("none", <<>>, 0)}
                 ELSE Fetches :
        \E r \in {list(dirExists, files, fetch)} :
        LET o == Outcome(r.dir, r.files, r.ret, FALSE)
        IN  /\ dirExists' = r.dir
            /\ files' = r.files
            /\ call' = Call("list", <<>>, IF r.synced THEN fetch.kind ELSE "none", o,
                            r.names, r.synced, r.opened)
            /\ before' = Snapshot
            /\ prev' = Summary(call)
            /\ backupSource' = NextSource(r.files, FALSE)
            /\ gen' = NoGeneration

\* generate fetches only when list() finds no current archive.
CmdGenerate ==
    \E template \in Templates, dest \in Destinations,
       fetch \in IF isfile(files, SYNC_LOCAL_FILE)
                 THEN {Fetch("none", <<>>, 0)}
                 ELSE Fetches :
        \E r \in {generate(dirExists, files, fetch, template, dest)} :
        LET o == Outcome(r.dir, r.files, r.ret, FALSE)
        IN  /\ dirExists' = r.dir
            /\ files' = r.files
            /\ call' = Call("generate", <<>>, IF r.synced THEN fetch.kind ELSE "none", o,
                            r.names, r.synced, r.opened)
            /\ before' = Snapshot
            /\ prev' = Summary(call)
            /\ backupSource' = NextSource(r.files, FALSE)
            /\ gen' = Generation(template, r.listed, dest, r.dest)

\* The cache and its catalogue.
Next == CmdSync \/ CmdRollback \/ CmdReset \/ CmdList

Spec == Init /\ [][Next]_vars

\* The catalogue and the generation of templates, over a cache that syncs
\* fill.  generate reads the directory flag and the current archive alone,
\* and syncs, whatever their fetch does, bring these two to every value that
\* rollback and reset can bring them to.
NextGenerate == CmdSync \/ CmdList \/ CmdGenerate

SpecGenerate == Init /\ [][NextGenerate]_vars

\* The shapes of the cache directory.
HasCurrent(f) == isfile(f, SYNC_LOCAL_FILE)

HasBackup(f) == isfile(f, SYNC_LOCAL_FILE_OLD)

SameCache == dirExists = before.dir /\ files = before.files

TypeOK ==
    /\ dirExists \in BOOLEAN
    /\ DOMAIN files = FileNames
    /\ (HasCurrent(files) \/ HasBackup(files)) => dirExists

(***************************************************************************)
(* Properties.                                                             *)
(***************************************************************************)
Current == SYNC_LOCAL_FILE

Backup == SYNC_LOCAL_FILE_OLD

Empty(f) == ~HasCurrent(f) /\ ~HasBackup(f)

\* A file holds a whole remote body.
Complete(data) == data # <<>> /\ Len(data) = data[1].of

\* C1 (as stated): after a successful sync a backup exists iff a current
\* archive existed before the call, and then it holds what that archive held.
C1_BackupIffCurrentExisted ==
    (call.op = "sync" /\ call.fetch = "ok" /\ call.ret = "True") =>
        /\ HasBackup(files) <=> HasCurrent(before.files)
        /\ HasCurrent(before.files) => files[Backup] = before.files[Current]

\* C1 (amended): after a successful sync, a current archive that existed before
\* the call is the backup, alone and unchanged; when none existed the backup
\* slot is as the call found it, so a backup left by a failed sync is kept.
C1_BackupAfterSync ==
    (call.op = "sync" /\ call.ret = "True") =>
        IF HasCurrent(before.files)
        THEN HasBackup(files) /\ files[Backup] = before.files[Current]
        ELSE files[Backup] = before.files[Backup]

C1_Witness ==
    /\ call.op = "sync" /\ call.fetch = "ok" /\ call.ret = "True"
    /\ ~HasCurrent(before.files) /\ HasBackup(before.files)
    /\ HasCurrent(files) /\ HasBackup(files)

\* C2: a sync that finds a current archive and whose fetch fails, at
\* connection or while streaming, reports failure and leaves no current
\* archive, the backup holding what the current archive held.
C2_FailedSyncLeavesBackupOnly ==
    (/\ call.op = "sync"
     /\ HasCurrent(before.files)
     /\ call.fetch \in {"conn_error", "stream_error"}) =>
        /\ call.ret \in {"False", "raise"}
        /\ ~HasCurrent(files)
        /\ files[Backup] = before.files[Current]

\* C3: list never returns templates read from a current archive that was
\* written only in part.
C3_NoPartialArchiveRead ==
    (call.op = "list" /\ call.ret = "list" /\ call.opened.exists) =>
        Complete(call.opened.data)

\* C4: every failure of the remote fetch makes sync report failure, and sync
\* reports success only when the remote archive was fetched in full.  An
\* exception leaving sync is counted as a report of failure.
C4_FetchFailureReported ==
    call.op = "sync" =>
        /\ call.fetch # "ok" => call.ret \in {"False", "raise"}
        /\ call.ret = "True" => call.fetch = "ok"

\* C5: at most one backup exists, and a backup that exists holds what the
\* current archive held when the sync that made it began.
C5_BackupFromSync ==
    /\ Cardinality({p \in FileNames \ {Current} : files[p].exists}) <= 1
    /\ HasBackup(files) => backupSource.exists /\ files[Backup] = backupSource

C5_Witness ==
    /\ call.op = "sync"
    /\ HasBackup(before.files) /\ HasBackup(files)
    /\ files[Backup] # before.files[Backup]

\* C6: rollback without a backup returns success, does not prompt and leaves
\* the cache directory as it was.
C6_RollbackWithoutBackup ==
    (call.op = "rollback" /\ ~HasBackup(before.files)) =>
        call.ret = "True" /\ ~call.prompted /\ SameCache

C6_Witness ==
    /\ call.op = "rollback" /\ ~HasBackup(before.files)
    /\ HasCurrent(before.files) /\ Confirms(call.answer)

\* C7: a confirmed rollback with a backup ends with the current archive
\* holding what the backup held and with no backup, whether or not there was
\* a current archive.
C7_ConfirmedRollback ==
    (call.op = "rollback" /\ HasBackup(before.files) /\ Confirms(call.answer)) =>
        /\ call.prompted
        /\ files[Current] = before.files[Backup]
        /\ ~HasBackup(files)

C7_Witness ==
    /\ call.op = "rollback" /\ HasBackup(before.files) /\ Confirms(call.answer)
    /\ ~HasCurrent(before.files)
    /\ HasCurrent(files)

\* C8: a rollback right after a confirmed rollback changes nothing and
\* returns success.
C8_SecondRollbackNoOp ==
    (call.op = "rollback" /\ prev.op = "rollback" /\ prev.acted) =>
        call.ret = "True" /\ ~call.prompted /\ SameCache

C8_Witness ==
    /\ call.op = "rollback" /\ prev.op = "rollback" /\ prev.acted
    /\ Confirms(call.answer) /\ HasCurrent(files)

\* C9: reset without a current archive changes nothing; a confirmed reset of
\* a cache with one removes the directory and both files, and the list after
\* it finds no current archive and runs a sync.
C9_Reset ==
    /\ (call.op = "reset" /\ ~HasCurrent(before.files)) => SameCache
    /\ (call.op = "reset" /\ HasCurrent(before.files) /\ Confirms(call.answer)) =>
          ~dirExists /\ files = NoFiles
    /\ (call.op = "list" /\ prev.op = "reset" /\ prev.acted) =>
          ~HasCurrent(before.files) /\ call.synced

C9_Witness ==
    /\ call.op = "list" /\ prev.op = "reset" /\ prev.acted
    /\ call.synced /\ call.fetch = "ok" /\ HasCurrent(files)

\* C10 (as stated): from every cache state, one with a backup and no current
\* archive included, a reset the user confirms leaves no current archive and
\* no backup.
C10_ConfirmedResetEmpties ==
    (call.op = "reset" /\ Confirms(call.answer)) => Empty(files)

\* C10 (amended): a reset the user confirms leaves no current archive and no
\* backup when it finds a current archive; when it finds none it does not
\* prompt, and a backup that is there stays.
C10_ResetEmptiesWhenCurrent ==
    (call.op = "reset" /\ Confirms(call.answer)) =>
        IF HasCurrent(before.files)
        THEN call.prompted /\ Empty(files)
        ELSE ~call.prompted /\ files[Backup] = before.files[Backup]

C10_Witness ==
    /\ call.op = "reset" /\ Confirms(call.answer)
    /\ HasCurrent(before.files) /\ HasBackup(before.files)
    /\ Empty(files)

\* The answers the prompt's "(Y/n)" calls a refusal: nothing, n or no, in any
\* letter case.
SaysNo(answer) == answer = <<>> \/ lower(answer) \in {<<"n">>, <<"n", "o">>}

\* C11: an empty answer or an explicit no (n, N, no in any letter case) to
\* the prompt of rollback or reset leaves the cache directory as it was.
C11_NoAnswerDeclines ==
    (call.op \in {"rollback", "reset"} /\ SaysNo(call.answer)) => SameCache

\* The directory entries that lie at the top of the archive: a trailing "/"
\* and no other one.
TopLevel(filename) ==
    /\ Len(filename) > 1
    /\ filename[Len(filename)] = "/"
    /\ \A i \in 1..(Len(filename) - 1) : filename[i] # "/"

TopLevelNames(entries) ==
    LET keep == SelectSeq(entries, TopLevel)
    IN  [i \in 1..Len(keep) |-> SubSeq(keep[i], 1, Len(keep[i]) - 1)]

\* C12: list returns the names of the top-level directory entries of the
\* archive it read, in archive order, and nothing else.
C12_ListTopLevelOnly ==
    (call.op = "list" /\ call.ret = "list" /\ call.opened.exists) =>
        call.names = TopLevelNames(ZipFile(call.opened).entries)

\* C13: a list that finds no current archive and whose sync fails, by any
\* failure of the fetch, returns the empty sequence.
C13_ListEmptyOnFailedSync ==
    (/\ call.op = "list"
     /\ call.synced
     /\ call.fetch \in {"conn_error", "interrupt_connect",
                        "stream_error", "stream_interrupt"}) =>
        call.ret = "list" /\ call.names = <<>>

\* What rollback and reset return when there is nothing to do.
NothingToDo(op) ==
    IF op = "reset"
    THEN reset(FALSE, NoFiles, <<>>).ret
    ELSE rollback(FALSE, NoFiles, <<>>).ret

\* C17: a prompt that is declined returns what the same operation returns
\* when it has nothing to do.
C17_DeclineIsSuccessNoOp ==
    (call.op \in {"rollback", "reset"} /\ call.prompted /\ ~Confirms(call.answer)) =>
        call.ret = NothingToDo(call.op)

\* A file holds a whole zip archive.
CompleteArchive(file) ==
    file.exists /\ Complete(file.data) /\ file.data[1].arch \in ArchiveIds

\* C18: in a run of syncs that began with a complete download, each later
\* one succeeding, failing at connection or failing while streaming, the
\* current archive or the backup is a complete archive.
C18_CompleteArchiveKept ==
    (/\ call.op = "sync"
     /\ call.fetch \in {"ok", "conn_error", "stream_error", "stream_interrupt"}
     /\ (call.fetch = "ok" \/ prev.good)) =>
        CompleteArchive(files[Current]) \/ CompleteArchive(files[Backup])

\* C19: a sync that finds a current archive and succeeds or fails at
\* connection, then a confirmed rollback: the current archive holds what it
\* held before the sync, and there is no backup.
C19_SyncThenRollbackRestores ==
    (/\ call.op = "rollback"
     /\ Confirms(call.answer)
     /\ prev.op = "sync"
     /\ prev.current.exists) =>
        files[Current] = prev.current /\ ~HasBackup(files)

C19_Witness ==
    /\ call.op = "rollback" /\ Confirms(call.answer)
    /\ prev.op = "sync" /\ prev.current.exists
    /\ HasCurrent(before.files)
    /\ before.files[Current] # prev.current
    /\ files[Current] = prev.current

(***************************************************************************)
(* Properties of generate.                                                 *)
(***************************************************************************)
\* The entries of the archive the last list() or generate read.
EntriesRead == ZipFile(call.opened).entries

ArchiveRead == call.opened.data[1].arch

\* An entry under the template: the template's name, a "/", and more.
UnderTemplate(entry, template) ==
    /\ Len(entry) > Len(template) + 1
    /\ \A i \in 1..Len(template) : entry[i] = template[i]
    /\ entry[Len(template) + 1] = "/"

RelativePath(entry, template) == SubSeq(entry, Len(template) + 2, Len(entry))

\* C14: generate of a template the archive holds completes, and every file
\* entry under the template is at the destination under its path relative
\* to the template, with the entry's content; no file stands for a directory
\* entry.
C14_GenerateWritesTemplate ==
    (call.op = "generate" /\ contains(call.names, gen.template)) =>
        /\ call.ret = "True"
        /\ \A i \in 1..Len(EntriesRead) :
              LET entry == EntriesRead[i]
              IN  (UnderTemplate(entry, gen.template) /\ ~is_dir(entry)) =>
                      DestFile(RelativePath(entry, gen.template), ArchiveRead, entry)
                          \in gen.after.files
        /\ \A x \in gen.after.files : x.path # <<>> /\ ~is_dir(x.path)

\* C15: generate of a name that list() does not return fails with "False"
\* and leaves the destination as it was: not made, and no file in it made or
\* changed.
C15_NotFoundWritesNothing ==
    (call.op = "generate" /\ gen.listed /\ ~contains(call.names, gen.template)) =>
        call.ret = "False" /\ gen.after = gen.before

C15_Witness ==
    /\ call.op = "generate" /\ gen.listed /\ call.names # <<>>
    /\ ~contains(call.names, gen.template)
    /\ ~gen.before.exists

\* C16 (as stated): list and generate leave the cache directory as they
\* found it.
C16_ReadsNeverMutate ==
    call.op \in {"list", "generate"} => SameCache

\* C16 (amended): list and generate leave the cache directory as they found
\* it when it holds a current archive; when it holds none they run a sync,
\* which may make the directory and write the current archive, and they
\* leave the backup as it was.
C16_ReadsKeepCacheWithCurrent ==
    call.op \in {"list", "generate"} =>
        /\ HasCurrent(before.files) => ~call.synced /\ SameCache
        /\ ~HasCurrent(before.files) => call.synced
        /\ files[Backup] = before.files[Backup]

C16_Witness ==
    /\ call.op = "generate" /\ call.ret = "True"
    /\ HasCurrent(before.files) /\ HasBackup(before.files)
    /\ gen.after # gen.before

\* C20: generate writes only the files that entries under the template's
\* name and "/" map to, each with its entry's content: no entry of another
\* template is written, and a file of the destination that no such entry
\* maps to is left as it was.
C20_GenerateWritesOnlyTemplate ==
    call.op = "generate" =>
        /\ \A x \in gen.after.files :
              \/ x \in gen.before.files
              \/ \E i \in 1..Len(EntriesRead) :
                    /\ UnderTemplate(EntriesRead[i], gen.template)
                    /\ x = DestFile(RelativePath(EntriesRead[i], gen.template),
                                    ArchiveRead, EntriesRead[i])
        /\ \A x \in gen.before.files :
              \/ x \in gen.after.files
              \/ \E i \in 1..Len(EntriesRead) :
                    /\ UnderTemplate(EntriesRead[i], gen.template)
                    /\ x.path = RelativePath(EntriesRead[i], gen.template)

C20_Witness ==
    /\ call.op = "generate" /\ call.ret = "True"
    /\ gen.template = <<"w">>
    /\ OldFile(<<"k">>) \in gen.after.files
    /\ OldFile(<<"a">>) \notin gen.after.files
    /\ \E x \in gen.after.files : x.path = <<"s", "/", "b">>
    /\ \A x \in gen.after.files : x.path # <<"m">>

====
